---- MODULE Spec2Model ----
(***************************************************************************)
(* Model of app/api.py: a Flask application that keeps a process-wide      *)
(* cache (global_config, global_ontology, global_properties,               *)
(* global_classes), reloads it from the ONTOLOGY_CONFIG table and the      *)
(* triple store, and serves query-translation requests from it.            *)
(*                                                                         *)
(* Python values are tagged tuples: None is <<"NoneType">>, a str is       *)
(* <<"str", t>> where t is the text as a sequence of tokens.               *)
(***************************************************************************)
EXTENDS Integers, Sequences, FiniteSets, TLC

\* ------------------------------------------------------------------ bounds
\* highest version number of a configuration body sent to POST /config
MaxVer == 1
\* longest LLM completion, in tokens
MaxLen == 3

\* ---------------------------------------------------------- python values
None == <<"NoneType">>

Str(t) == <<"str", t>>

IsStr(v) == v[1] = "str"

Text(v) == v[2]

\* t[i] with Python's 0-based index
Idx(t, i) == t[i + 1]

\* str(v) as used by str.format
PyStr(v) == IF IsStr(v) THEN Text(v) ELSE <<"None">>

\* 'not v' for the values a JSON body field can take
Falsy(v) == v = None \/ v = Str(<<>>)

\* -------------------------------------------------------- the config table
\* select list of initialize_data and of GET /config, in order
Columns ==
    << "ontology_query", "property_query", "classes_query", "instructions",
       "prefixes", "graph", "graph_inferred", "query_example", "template",
       "query_template", "query_template_no_topic", "template_similarity" >>

Keys == { Columns[i] : i \in 1..Len(Columns) }

\* placeholders of the two outer templates
GSQ == "{generated_sparql_query}"

TOPIC == "{topic}"

\* a placeholder neither handler supplies an argument for
EXTRA == "{limit}"

Placeholders == { GSQ, TOPIC, EXTRA }

\* an outer template holding the placeholders in p, in a fixed order
TemplateOf(p) ==
    Str(<<"CALL">> \o (IF GSQ \in p THEN <<GSQ>> ELSE <<>>)
                 \o (IF TOPIC \in p THEN <<"where", TOPIC>> ELSE <<>>)
                 \o (IF EXTRA \in p THEN <<"limit", EXTRA>> ELSE <<>>))

Templates == { TemplateOf(p) : p \in SUBSET Placeholders } \cup {None}

\* a full row: every text column tagged with its name and version v
Row(v, qt, qtnt) ==
    [ k \in Keys |->
        IF k = "query_template" THEN qt
        ELSE IF k = "query_template_no_topic" THEN qtnt
        ELSE Str(<<k, ToString(v)>>) ]

GoodRow(v) == Row(v, TemplateOf({GSQ, TOPIC}), TemplateOf({GSQ}))

SeedRow == GoodRow(0)

Missing == <<"missing">>

\* the JSON bodies POST /config is tried with: version v of every field,
\* without the keys in a
Body(v, a) == [ k \in Keys |-> IF k \in a THEN Missing ELSE GoodRow(v)[k] ]

AbsentChoices == SUBSET { "classes_query", "instructions", "query_template", "template_similarity" }

Bodies == { Body(v, a) : v \in 1..MaxVer, a \in AbsentChoices }

\* one body that carries all twelve fields
FullBody == Body(1, {})

\* dict.get(k): None for an absent key
DictGet(d, k) == IF d[k] = Missing THEN None ELSE d[k]

EmptyDict == [ k \in Keys |-> Missing ]

\* ------------------------------------------------------------------ store
CSV == "application/sparql-results+csv"

JSON == "application/sparql-results+json"

\* what the store answers to a SPARQL text under an accept header
StoreAnswer(query, accept) == Str(<<"result", accept>> \o Text(query))

\* cursor.callproc('SPARQL_EXECUTE', (query, accept, '?', '?')): the
\* parameter tuple with the two output parameters filled in
SPARQL_EXECUTE(query, accept) ==
    << query, Str(<<accept>>), StoreAnswer(query, accept), Str(<<"metadata">>) >>

\* the store rejects a NULL statement; any call may also fail on its own
CallSucceeds(query, ok) == ok /\ IsStr(query)

VARIABLES
    ontology_config,    \* the ONTOLOGY_CONFIG table: a sequence of rows
    global_config,      \* api.py:39
    global_ontology,    \* api.py:40
    global_properties,  \* api.py:41
    global_classes,     \* api.py:42
    ld,                 \* frame of the request running initialize_data
    tr,                 \* frame of the request running a translate handler
    resp,               \* response being sent, NoResp when none
    hist                \* history: whether a load failed, last body POSTed

vars == << ontology_config, global_config, global_ontology,
           global_properties, global_classes, ld, tr, resp, hist >>

cache == << global_config, global_ontology, global_properties, global_classes >>

NoResp == [ endpoint |-> "none", status |-> 0, keys |-> {}, payload |-> None ]

Response(e, s, k, p) == [ endpoint |-> e, status |-> s, keys |-> k, payload |-> p ]

\* jsonify({'error': str(e)}), 400
Error400(e) == Response(e, 400, {"error"}, None)

\* an exception that leaves the view function: the answer is Flask's own
\* error page, not a JSON body of the handler
Unhandled(e) == Response(e, 500, {}, None)

NoPost == <<"nopost">>

IdleLd ==
    [ pc |-> "idle", config |-> None, calls |-> <<>>,
      ok |-> FALSE, changed |-> FALSE ]

Unbound == <<"unbound">>

IdleTr ==
    [ pc |-> "idle", endpoint |-> "none", nl_query |-> None, idx |-> 0,
      local |-> [ n \in {} |-> None ], views |-> {},
      topic_out |-> Unbound, topic |-> Unbound, query |-> Unbound,
      sparql_query |-> Unbound, final_query |-> Unbound, log |-> <<>> ]

InitHist ==
    [ loadFailed |-> FALSE, lastPost |-> NoPost ]

\* the module has been imported: api.py:38-42; the table is seeded out of
\* band, or not at all
Init ==
    /\ ontology_config \in { <<>>, <<SeedRow>> }
    /\ global_config = EmptyDict
    /\ global_ontology = None
    /\ global_properties = None
    /\ global_classes = None
    /\ ld = IdleLd
    /\ tr = IdleTr
    /\ resp = NoResp
    /\ hist = InitHist

\* ------------------------------------------------------- initialize_data
\* SELECT ... FROM ONTOLOGY_CONFIG; fetchone(): the first row as a tuple in
\* select-list order, None when there is no row
FetchOne(table) ==
    IF table = <<>> THEN None
    ELSE [ i \in 1..Len(Columns) |-> table[1][Columns[i]] ]

\* the dict built at api.py:56-69
ConfigDict(config) ==
    [ k \in Keys |->
        CASE k = "ontology_query" -> Idx(config, 0)
          [] k = "property_query" -> Idx(config, 1)
          [] k = "classes_query" -> Idx(config, 2)
          [] k = "instructions" -> Idx(config, 3)
          [] k = "prefixes" -> Idx(config, 4)
          [] k = "graph" -> Idx(config, 5)
          [] k = "graph_inferred" -> Idx(config, 6)
          [] k = "query_example" -> Idx(config, 7)
          [] k = "template" -> Idx(config, 8)
          [] k = "query_template" -> Idx(config, 9)
          [] k = "query_template_no_topic" -> Idx(config, 10)
          [] k = "template_similarity" -> Idx(config, 11) ]

\* the except clause of initialize_data: print and fall through to return
LoadFails ==
    /\ ld' = [ ld EXCEPT !.pc = "return", !.ok = FALSE ]
    /\ hist' = [ hist EXCEPT !.loadFailed = TRUE ]

\* POST /load_config arrives and calls initialize_data
L_Begin ==
    /\ resp = NoResp
    /\ ld.pc = "idle"
    /\ ld' = [ IdleLd EXCEPT !.pc = "select" ]
    /\ UNCHANGED << ontology_config, cache, tr, resp, hist >>

\* api.py:48-53
L_Select(ok) ==
    /\ resp = NoResp
    /\ ld.pc = "select"
    /\ IF ok
       THEN /\ ld' = [ ld EXCEPT !.pc = "set_config",
                                 !.config = FetchOne(ontology_config) ]
            /\ UNCHANGED hist
       ELSE LoadFails
    /\ UNCHANGED << ontology_config, cache, tr, resp >>

\* api.py:56-69; config[0] on None raises TypeError; config is not read
\* again and is dropped from the frame
L_SetConfig ==
    /\ resp = NoResp
    /\ ld.pc = "set_config"
    /\ IF ld.config = None
       THEN LoadFails /\ UNCHANGED cache
       ELSE /\ global_config' = ConfigDict(ld.config)
            /\ ld' = [ ld EXCEPT !.pc = "ontology", !.config = None,
                                 !.changed = (global_config' # global_config) ]
            /\ UNCHANGED hist
            /\ UNCHANGED << global_ontology, global_properties, global_classes >>
    /\ UNCHANGED << ontology_config, tr, resp >>

\* cursor.callproc of api.py:73, 77, 81 followed by the assignment of
\* result[i] to a cached value.  No other thread writes global_config or
\* changes what the store answers, so the two are taken in one step.
L_Ontology(ok) ==
    /\ resp = NoResp
    /\ ld.pc = "ontology"
    /\ LET query == global_config["ontology_query"]
           result == SPARQL_EXECUTE(query, CSV)
       IN  IF CallSucceeds(query, ok)
           THEN /\ global_ontology' = Idx(result, 2)
                /\ ld' = [ ld EXCEPT !.pc = "properties", !.calls = Append(@, query),
                                     !.changed = @ \/ global_ontology' # global_ontology ]
                /\ UNCHANGED hist
           ELSE LoadFails /\ UNCHANGED global_ontology
    /\ UNCHANGED << ontology_config, global_config, global_properties,
                    global_classes, tr, resp >>

L_Properties(ok) ==
    /\ resp = NoResp
    /\ ld.pc = "properties"
    /\ LET query == global_config["property_query"]
           result == SPARQL_EXECUTE(query, JSON)
       IN  IF CallSucceeds(query, ok)
           THEN /\ global_properties' = Idx(result, 2)
                /\ ld' = [ ld EXCEPT !.pc = "classes", !.calls = Append(@, query),
                                     !.changed = @ \/ global_properties' # global_properties ]
                /\ UNCHANGED hist
           ELSE LoadFails /\ UNCHANGED global_properties
    /\ UNCHANGED << ontology_config, global_config, global_ontology,
                    global_classes, tr, resp >>

\* api.py:80-84
L_Classes(ok) ==
    /\ resp = NoResp
    /\ ld.pc = "classes"
    /\ LET query == global_config["classes_query"]
           result == SPARQL_EXECUTE(query, JSON)
       IN  IF CallSucceeds(query, ok)
           THEN /\ global_classes' = Idx(result, 0)
                /\ ld' = [ ld EXCEPT !.pc = "return", !.ok = TRUE,
                                     !.calls = Append(@, query),
                                     !.changed = @ \/ global_classes' # global_classes ]
                /\ UNCHANGED hist
           ELSE LoadFails /\ UNCHANGED global_classes
    /\ UNCHANGED << ontology_config, global_config, global_ontology,
                    global_properties, tr, resp >>

\* api.py:339: initialize_data has returned, whatever happened inside it
load_config ==
    /\ resp = NoResp
    /\ ld.pc = "return"
    /\ resp' = Response("load_config", 200, {"message"}, None)
    /\ ld' = [ ld EXCEPT !.pc = "returned" ]
    /\ UNCHANGED << ontology_config, cache, tr, hist >>

\* --------------------------------------------------------------- /config
\* a column the body lacks keeps its value
UpdatedRow_Merge(data) ==
    [ k \in Keys |-> IF data[k] = Missing THEN ontology_config[1][k] ELSE data[k] ]

\* the row UPDATE writes from the JSON body: data.get(column) per column
UpdatedRow(data) == [ k \in Keys |-> DictGet(data, k) ]

\* the handler also puts what it wrote into global_config
config_post_Refreshing(data, isJson, ok) ==
    /\ resp = NoResp
    /\ IF isJson /\ ok
       THEN /\ ontology_config' =
                 [ i \in DOMAIN ontology_config |-> [ k \in Keys |-> DictGet(data, k) ] ]
            /\ global_config' = [ k \in Keys |-> DictGet(data, k) ]
            /\ resp' = Response("config_post", 200, {"message"}, None)
            /\ hist' = [ hist EXCEPT !.lastPost = data ]
       ELSE /\ resp' = Unhandled("config_post")
            /\ UNCHANGED << ontology_config, global_config, hist >>
    /\ UNCHANGED << global_ontology, global_properties, global_classes, ld, tr >>

\* POST /config, api.py:282-315; no try: any failure leaves the handler
config_post(data, isJson, ok) ==
    /\ resp = NoResp
    /\ IF isJson /\ ok
       THEN /\ ontology_config' =
                 [ i \in DOMAIN ontology_config |-> UpdatedRow(data) ]
            /\ resp' = Response("config_post", 200, {"message"}, None)
            /\ hist' = [ hist EXCEPT !.lastPost = data ]
       ELSE /\ resp' = Unhandled("config_post")
            /\ UNCHANGED << ontology_config, hist >>
    /\ UNCHANGED << cache, ld, tr >>

\* GET /config, api.py:317-333
config_get(ok) ==
    /\ resp = NoResp
    /\ LET config == FetchOne(ontology_config)
       IN  IF ok /\ config # None
           THEN resp' = Response("config_get", 200, Keys, ConfigDict(config))
           ELSE resp' = Unhandled("config_get")
    /\ UNCHANGED << ontology_config, cache, ld, tr, hist >>

\* ------------------------------------ execute_query_raw, execute_sparql_query
RawQueries == { None, Str(<<>>), Str(<<"ASK">>) }

\* api.py:88-134: both handlers have the same body once query is read;
\* request.args.get('query') may be None, request.data.decode never is
execute(endpoint, query, format, ok) ==
    /\ resp = NoResp
    /\ resp' =
         IF Falsy(query) THEN Error400(endpoint)
         ELSE IF ~ok THEN Error400(endpoint)
         ELSE IF format = "csv"
              THEN Response(endpoint, 200, {}, Idx(SPARQL_EXECUTE(query, CSV), 2))
              ELSE Response(endpoint, 200, {"json"}, Idx(SPARQL_EXECUTE(query, JSON), 2))
    /\ UNCHANGED << ontology_config, cache, ld, tr, hist >>

execute_query_raw(query, format, ok) ==
    query # None /\ execute("execute_query_raw", query, format, ok)

execute_sparql_query(query, format, ok) ==
    execute("execute_sparql_query", query, format, ok)

\* ------------------------------------------------------------ LLM output
\* characters a completion is made of, besides whole JSON texts: a
\* backtick, a letter of "python", a newline, a letter outside "python"
BT == "backtick"

NL == "newline"

FenceChars == { BT, "p", NL, "j" }

\* JSON texts the topic prompt may be answered with
JsonAtoms == { "{T1,Qr}", "{None,Qr}", "{null,Qr}", "{T1}", "[]" }

JsonError == [ type |-> "error", topic |-> Missing, query |-> Missing ]

\* the value json.loads gives for a JSON text
JsonValue(a) ==
    CASE a = "{T1,Qr}" -> [ type |-> "dict", topic |-> Str(<<"T1">>), query |-> Str(<<"Qr">>) ]
      [] a = "{None,Qr}" -> [ type |-> "dict", topic |-> Str(<<"None">>), query |-> Str(<<"Qr">>) ]
      [] a = "{null,Qr}" -> [ type |-> "dict", topic |-> None, query |-> Str(<<"Qr">>) ]
      [] a = "{T1}" -> [ type |-> "dict", topic |-> Str(<<"T1">>), query |-> Missing ]
      [] a = "[]" -> [ type |-> "list", topic |-> Missing, query |-> Missing ]

SeqsUpTo(alphabet, n) == UNION { [ 1..m -> alphabet ] : m \in 0..n }

\* an LLM call raises, or returns a completion
LLMError == <<"llm_error">>

TopicOuts == { Str(t) : t \in SeqsUpTo(FenceChars \cup JsonAtoms, MaxLen) } \cup {LLMError}

SampleTopicOuts == { o \in TopicOuts : o = LLMError \/ Len(Text(o)) <= 1 }

SparqlOuts == { Str(t) : t \in SeqsUpTo({" ", "SELECT"}, 2) } \cup {LLMError}

RECURSIVE LStrip(_, _)
LStrip(t, chars) ==
    IF t # <<>> /\ Head(t) \in chars THEN LStrip(Tail(t), chars) ELSE t

RECURSIVE RStrip(_, _)
RStrip(t, chars) ==
    IF t # <<>> /\ t[Len(t)] \in chars THEN RStrip(SubSeq(t, 1, Len(t) - 1), chars) ELSE t

\* str.strip(chars): drops leading and trailing characters found in chars
Strip(t, chars) == RStrip(LStrip(t, chars), chars)

\* api.py:223: two strip calls, the first with three backticks, the
\* letters of python and a newline, the second with a newline and three
\* backticks
StripFence(t) == Strip(Strip(t, { BT, "p", NL }), { NL, BT })

\* json.loads: one JSON text, JSON whitespace around it allowed
JsonLoads(t) ==
    LET u == Strip(t, { NL })
    IN  IF Len(u) = 1 /\ u[1] \in JsonAtoms THEN JsonValue(u[1]) ELSE JsonError

\* response_topic[k] raises on a non-dict and on a missing key
Subscriptable(v, k) == v.type = "dict" /\ v[k] # Missing

\* str.strip() with no argument
StripWs(t) == Strip(t, { " ", NL })

\* ------------------------------------------------------------- composing
FormatError == <<"format_error">>

RECURSIVE FormatTokens(_, _)
FormatTokens(t, kwargs) ==
    IF t = <<>> THEN <<>>
    ELSE IF Head(t) \in Placeholders
         THEN PyStr(kwargs[Head(t)]) \o FormatTokens(Tail(t), kwargs)
         ELSE <<Head(t)>> \o FormatTokens(Tail(t), kwargs)

\* template.format(**kwargs): AttributeError on None, KeyError on a
\* placeholder without a keyword argument, unused arguments are ignored
Format(template, kwargs) ==
    IF ~IsStr(template) THEN FormatError
    ELSE IF \E i \in 1..Len(Text(template)) :
                 /\ Text(template)[i] \in Placeholders
                 /\ kwargs[Text(template)[i]] = Missing
         THEN FormatError
         ELSE Str(FormatTokens(Text(template), kwargs))

\* sql_formatter's format_sql: re-lays the statement out, upper-casing
\* keywords; a formatted statement is a fixed point
FormatToken(w) ==
    CASE w = "where" -> "WHERE"
      [] w = "SELECT" -> "SELECT"
      [] OTHER -> w

format_sql(s) == Str([ i \in 1..Len(Text(s)) |-> FormatToken(Text(s)[i]) ])

\* the test written against None instead of the string "None"
Compose_TestsNone(topic, sparql_query, query_template, query_template_no_topic) ==
    IF topic # None
    THEN LET s == Format(query_template,
                         (GSQ :> sparql_query) @@ (TOPIC :> topic) @@ (EXTRA :> Missing))
         IN  IF s = FormatError THEN FormatError ELSE format_sql(s)
    ELSE Format(query_template_no_topic,
                (GSQ :> sparql_query) @@ (TOPIC :> Missing) @@ (EXTRA :> Missing))

\* api.py:256-259
Compose(topic, sparql_query, query_template, query_template_no_topic) ==
    IF topic # Str(<<"None">>)
    THEN LET s == Format(query_template,
                         (GSQ :> sparql_query) @@ (TOPIC :> topic) @@ (EXTRA :> Missing))
         IN  IF s = FormatError THEN FormatError ELSE format_sql(s)
    ELSE Format(query_template_no_topic,
                (GSQ :> sparql_query) @@ (TOPIC :> Missing) @@ (EXTRA :> Missing))

\* ---------------------------------------------------- translate handlers
TranslateEndpoints == { "translate_nl_to_sparql", "translate_nl_to_new" }

\* the request bodies tried: not JSON, no nl_query, empty, a question
NotJson == <<"notjson">>

NlBodies == { NotJson, None, Str(<<>>), Str(<<"Q1">>) }

\* the reads of the cache, in statement order: api.py:147-155, 197-208
Reads(endpoint) ==
    << <<"ontology", "global_ontology">>, <<"properties", "global_properties">>,
       <<"classes", "global_classes">>, <<"instructions", "global_config">>,
       <<"prefixes", "global_config">>, <<"graph", "global_config">>,
       <<"graph_inferred", "global_config">>, <<"query_example", "global_config">>,
       <<"template", "global_config">> >>
    \o (IF endpoint = "translate_nl_to_new"
        THEN << <<"template_similarity", "global_config">>,
                <<"query_template", "global_config">>,
                <<"query_template_no_topic", "global_config">> >>
        ELSE <<>>)

\* the value a read gets when the four cached values are c
ReadValue(c, name, global) ==
    CASE global = "global_ontology" -> c[2]
      [] global = "global_properties" -> c[3]
      [] global = "global_classes" -> c[4]
      [] global = "global_config" -> DictGet(c[1], name)

\* the locals the handlers branch on or compute with; the others are only
\* handed to the prompt
Control == { "template", "template_similarity", "query_template", "query_template_no_topic" }

\* the cache as the module leaves it, and as a load of row r that runs to
\* its end leaves it
InitialCache == << EmptyDict, None, None, None >>

LoadedCache(r) ==
    << ConfigDict(FetchOne(<<r>>)),
       Idx(SPARQL_EXECUTE(r["ontology_query"], CSV), 2),
       Idx(SPARQL_EXECUTE(r["property_query"], JSON), 2),
       Idx(SPARQL_EXECUTE(r["classes_query"], JSON), 0) >>

Snapshots == { InitialCache, LoadedCache(SeedRow), LoadedCache(GoodRow(1)) }

\* the except clause: translate_nl_to_new puts final_query in the body,
\* which is an UnboundLocalError when it was never assigned
Except(f) ==
    IF f.endpoint = "translate_nl_to_sparql" THEN Error400(f.endpoint)
    ELSE IF f.final_query = Unbound THEN Unhandled(f.endpoint)
    ELSE Response(f.endpoint, 400, {"error", "final_query"}, f.final_query)

\* api.py:138-144, 188-194
T_Begin(endpoint, body) ==
    /\ resp = NoResp
    /\ tr.pc = "idle"
    /\ LET f == [ IdleTr EXCEPT !.endpoint = endpoint ]
       IN  IF body = NotJson
           THEN tr' = [ f EXCEPT !.pc = "returned" ] /\ resp' = Except(f)
           ELSE IF Falsy(body)
           THEN tr' = [ f EXCEPT !.pc = "returned" ] /\ resp' = Error400(endpoint)
           ELSE tr' = [ f EXCEPT !.pc = "read", !.nl_query = body, !.idx = 1,
                                 !.views = Snapshots ]
                /\ UNCHANGED resp
    /\ UNCHANGED << ontology_config, cache, ld, hist >>

\* one read of a global
T_Read ==
    /\ resp = NoResp
    /\ tr.pc = "read"
    /\ LET r == Reads(tr.endpoint)[tr.idx]
       IN  tr' = [ tr EXCEPT
                     !.local = IF r[1] \in Control
                               THEN (r[1] :> ReadValue(cache, r[1], r[2])) @@ @
                               ELSE @,
                     !.views = { c \in @ : ReadValue(c, r[1], r[2])
                                             = ReadValue(cache, r[1], r[2]) },
                     !.idx = @ + 1,
                     !.pc = IF tr.idx = Len(Reads(tr.endpoint)) THEN "run" ELSE "read" ]
    /\ UNCHANGED << ontology_config, cache, ld, resp, hist >>

Event(op, arg) == [ op |-> op, arg |-> arg ]

\* api.py:157-184
T_RunSparql(out) ==
    /\ resp = NoResp
    /\ tr.pc = "run"
    /\ tr.endpoint = "translate_nl_to_sparql"
    /\ LET f == [ tr EXCEPT !.pc = "returned" ]
           g == [ f EXCEPT !.log = Append(@, Event("sparql_llm", tr.nl_query)) ]
       IN  IF tr.local["template"] = None
           THEN tr' = f /\ resp' = Except(f)
           ELSE IF out = LLMError
           THEN tr' = g /\ resp' = Except(g)
           ELSE /\ tr' = [ g EXCEPT !.sparql_query = Str(StripWs(Text(out))) ]
                /\ resp' = Response(tr.endpoint, 200, {"sparql_query"},
                                    Str(StripWs(Text(out))))
    /\ UNCHANGED << ontology_config, cache, ld, hist >>

\* a completion that does not parse is taken as no topic and the question
\* as asked
TopicStage_Defaulting(f, out) ==
    LET g == [ f EXCEPT !.log = Append(@, Event("topic_llm", f.nl_query)),
                        !.topic_out = out ]
        parsed == JsonLoads(StripFence(Text(out)))
    IN  IF f.local["template_similarity"] = None THEN [ f EXCEPT !.pc = "raised" ]
        ELSE IF out = LLMError THEN [ g EXCEPT !.pc = "raised" ]
        ELSE IF Subscriptable(parsed, "topic") /\ Subscriptable(parsed, "query")
             THEN [ g EXCEPT !.topic = parsed.topic, !.query = parsed.query ]
             ELSE [ g EXCEPT !.topic = Str(<<"None">>), !.query = f.nl_query ]

\* api.py:216-230: the frame after the topic stage; pc "raised" when an
\* exception was thrown in it
TopicStage(f, out) ==
    LET g == [ f EXCEPT !.log = Append(@, Event("topic_llm", f.nl_query)),
                        !.topic_out = out ]
        parsed == JsonLoads(StripFence(Text(out)))
    IN  IF f.local["template_similarity"] = None THEN [ f EXCEPT !.pc = "raised" ]
        ELSE IF out = LLMError THEN [ g EXCEPT !.pc = "raised" ]
        ELSE IF parsed = JsonError THEN [ g EXCEPT !.pc = "raised" ]
        ELSE IF ~Subscriptable(parsed, "topic") THEN [ g EXCEPT !.pc = "raised" ]
        ELSE IF ~Subscriptable(parsed, "query")
             THEN [ g EXCEPT !.pc = "raised", !.topic = parsed.topic ]
        ELSE [ g EXCEPT !.topic = parsed.topic, !.query = parsed.query ]

\* api.py:232-254
SparqlStage(f, out) ==
    LET g == [ f EXCEPT !.log = Append(@, Event("sparql_llm", f.query)) ]
    IN  IF f.local["template"] = None THEN [ f EXCEPT !.pc = "raised" ]
        ELSE IF out = LLMError THEN [ g EXCEPT !.pc = "raised" ]
        ELSE [ g EXCEPT !.sparql_query = Str(StripWs(Text(out))) ]

\* api.py:256-259
ComposeStage(f) ==
    LET s == Compose(f.topic, f.sparql_query, f.local["query_template"],
                     f.local["query_template_no_topic"])
    IN  IF s = FormatError THEN [ f EXCEPT !.pc = "raised" ]
        ELSE [ f EXCEPT !.final_query = s ]

\* api.py:263-271
ExecuteStage(f, ok) ==
    LET g == [ f EXCEPT !.log = Append(@, Event("execute", f.final_query)) ]
    IN  IF ~ok THEN [ g EXCEPT !.pc = "raised" ] ELSE g

\* api.py:273, 275-276: the handler returns from frame f
Return(f) ==
    /\ tr' = [ f EXCEPT !.pc = "returned" ]
    /\ resp' = IF f.pc = "raised" THEN Except(f)
               ELSE Response(f.endpoint, 200, {"result", "final_query"}, f.final_query)

\* api.py:210-276: the stages in order, an exception in one skipping the
\* rest; topicOuts is what the topic call may come back with
T_RunNew(topicOuts) ==
    /\ resp = NoResp
    /\ tr.pc = "run"
    /\ tr.endpoint = "translate_nl_to_new"
    /\ \E topicOut \in topicOuts : \E f1 \in { TopicStage(tr, topicOut) } :
         IF f1.pc = "raised" THEN Return(f1)
         ELSE \E sparqlOut \in SparqlOuts : \E f2 \in { SparqlStage(f1, sparqlOut) } :
           IF f2.pc = "raised" THEN Return(f2)
           ELSE \E f3 \in { ComposeStage(f2) } :
             IF f3.pc = "raised" THEN Return(f3)
             ELSE \E ok \in BOOLEAN : \E f4 \in { ExecuteStage(f3, ok) } : Return(f4)
    /\ UNCHANGED << ontology_config, cache, ld, hist >>

\* the response has been sent and the frames of finished requests are gone
Sent ==
    /\ resp # NoResp
    /\ resp' = NoResp
    /\ ld' = IF ld.pc = "returned" THEN IdleLd ELSE ld
    /\ tr' = IF tr.pc = "returned" THEN IdleTr ELSE tr
    /\ UNCHANGED << ontology_config, cache, hist >>

Next ==
    \/ L_Begin
    \/ \E ok \in BOOLEAN : L_Select(ok)
    \/ L_SetConfig
    \/ \E ok \in BOOLEAN : L_Ontology(ok)
    \/ \E ok \in BOOLEAN : L_Properties(ok)
    \/ \E ok \in BOOLEAN : L_Classes(ok)
    \/ load_config
    \/ \E data \in {FullBody}, isJson \in BOOLEAN, ok \in BOOLEAN : config_post(data, isJson, ok)
    \/ \E ok \in BOOLEAN : config_get(ok)
    \/ \E q \in RawQueries, f \in {"json", "csv"}, ok \in BOOLEAN : execute_query_raw(q, f, ok)
    \/ \E q \in RawQueries, f \in {"json", "csv"}, ok \in BOOLEAN : execute_sparql_query(q, f, ok)
    \/ \E e \in TranslateEndpoints, b \in NlBodies : T_Begin(e, b)
    \/ T_Read
    \/ \E out \in SparqlOuts : T_RunSparql(out)
    \/ T_RunNew(SampleTopicOuts)
    \/ Sent

Spec == Init /\ [][Next]_vars

\* ---------------------------------------------------------------- /config
\* the /config handlers alone, over every body
NextConfig ==
    \/ \E data \in Bodies, isJson \in BOOLEAN, ok \in BOOLEAN : config_post(data, isJson, ok)
    \/ \E ok \in BOOLEAN : config_get(ok)
    \/ Sent

SpecConfig == Init /\ [][NextConfig]_vars

\* ------------------------------------------------------ translate_nl_to_new
\* a process whose cache holds a complete load of a row with any pair of
\* outer templates
InitPipeline ==
    \E qt \in Templates, qtnt \in Templates :
        /\ ontology_config = << Row(1, qt, qtnt) >>
        /\ global_config = LoadedCache(Row(1, qt, qtnt))[1]
        /\ global_ontology = LoadedCache(Row(1, qt, qtnt))[2]
        /\ global_properties = LoadedCache(Row(1, qt, qtnt))[3]
        /\ global_classes = LoadedCache(Row(1, qt, qtnt))[4]
        /\ ld = IdleLd
        /\ tr = IdleTr
        /\ resp = NoResp
        /\ hist = InitHist

NextPipeline ==
    \/ \E b \in NlBodies : T_Begin("translate_nl_to_new", b)
    \/ T_Read
    \/ T_RunNew(TopicOuts)
    \/ Sent

SpecPipeline == InitPipeline /\ [][NextPipeline]_vars

\* ------------------------------------------------------------- properties
Range(t) == { t[i] : i \in DOMAIN t }

\* a load that ran to its end leaves LoadedCache of the row it selected
LoadInstallsLoadedCache ==
    (ld.pc = "return" /\ ld.ok) => cache \in Snapshots

\* C1: a translate request that has read the four cached values, with no
\* failed load behind it, holds values that all belong to one complete
\* snapshot: the initial one or the one some load installed.
C1_NoTornRead ==
    (tr.pc = "run" /\ ~hist.loadFailed) => tr.views # {}

\* C2: after a load that failed, the four cached values are what they were
\* when the load started.
C2_LoadAllOrNothing ==
    (ld.pc \in { "return", "returned" } /\ ~ld.ok) => ~ld.changed

\* C3: a request that does not end in success ends with status 400 and a
\* body that has the key error.
C3_FailuresAre400 ==
    (resp # NoResp /\ resp.status # 200)
        => (resp.status = 400 /\ "error" \in resp.keys)

\* what a template becomes with gsq and topic put in place of its
\* placeholders, piece by piece
Pieces(template, gsq, topic) ==
    [ i \in DOMAIN template |->
        IF template[i] = GSQ THEN gsq
        ELSE IF template[i] = TOPIC THEN topic
        ELSE << template[i] >> ]

RECURSIVE Concat(_)
Concat(pieces) ==
    IF pieces = <<>> THEN <<>> ELSE Head(pieces) \o Concat(Tail(pieces))

Composed == tr.pc = "returned" /\ tr.final_query # Unbound

NoTopic == Str(<<"None">>)

\* C4: the final statement of translate_nl_to_new is query_template with the
\* generated query and the topic substituted exactly when topic is not
\* "None", and otherwise query_template_no_topic with the generated query
\* substituted and no topic value in it.
C4_TemplateChoice ==
    Composed =>
        LET qt == tr.local["query_template"]
            qtnt == tr.local["query_template_no_topic"]
        IN  IF tr.topic # NoTopic
            THEN /\ IsStr(qt)
                 /\ tr.final_query =
                      format_sql(Str(Concat(Pieces(Text(qt), Text(tr.sparql_query),
                                                   PyStr(tr.topic)))))
            ELSE /\ IsStr(qtnt)
                 /\ TOPIC \notin Range(Text(qtnt))
                 /\ tr.final_query =
                      Str(Concat(Pieces(Text(qtnt), Text(tr.sparql_query), <<>>)))
                 /\ "None" \notin Range(Text(tr.final_query))

C4_Witness ==
    /\ Composed
    /\ resp.status = 200
    /\ tr.topic = NoTopic
    /\ tr.local["query_template"] = TemplateOf({GSQ, TOPIC})
    /\ tr.local["query_template_no_topic"] = TemplateOf({GSQ})
    /\ tr.final_query = Str(<<"CALL">> \o Text(tr.sparql_query))

\* the outer template the request composes with
Selected ==
    IF tr.topic # NoTopic THEN tr.local["query_template"]
    ELSE tr.local["query_template_no_topic"]

Executed == \E i \in DOMAIN tr.log : tr.log[i].op = "execute"

\* C5: when the selected outer template has no generated_sparql_query
\* placeholder, the request ends in an error and nothing is executed.
C5_MissingPlaceholderNotExecuted ==
    ( /\ tr.pc = "returned"
      /\ tr.sparql_query # Unbound
      /\ ~(IsStr(Selected) /\ GSQ \in Range(Text(Selected))) )
        => (resp.status # 200 /\ ~Executed)

TopicAnswered ==
    tr.pc = "returned" /\ tr.topic_out # Unbound /\ tr.topic_out # LLMError

\* the completion, fences stripped, is an object with keys topic and query
ParsesAsTopicQuery(out) ==
    LET v == JsonLoads(StripFence(Text(out)))
    IN  v.type = "dict" /\ v.topic # Missing /\ v.query # Missing

Ops == [ i \in DOMAIN tr.log |-> tr.log[i].op ]

\* C6: when the topic completion does not parse as an object with topic and
\* query, the request fails with neither the SPARQL call nor an execution;
\* when it does, the SPARQL call gets the parsed query, after the topic call
\* and before any execution.
C6_TopicGatesPipeline ==
    TopicAnswered =>
        IF ~ParsesAsTopicQuery(tr.topic_out)
        THEN resp.status # 200 /\ Ops = << "topic_llm" >>
        ELSE /\ Ops \in { << "topic_llm" >>, << "topic_llm", "sparql_llm" >>,
                          << "topic_llm", "sparql_llm", "execute" >> }
             /\ resp.status = 200 => Len(Ops) = 3
             /\ Len(Ops) >= 2 =>
                  tr.log[2].arg = JsonLoads(StripFence(Text(tr.topic_out))).query

C6_Witness ==
    /\ TopicAnswered
    /\ ~ParsesAsTopicQuery(tr.topic_out)
    /\ Len(Text(tr.topic_out)) = 3
    /\ Text(tr.topic_out)[2] \in JsonAtoms
    /\ resp.status # 200

\* C7: /load_config answers 200 only when the load ran to its end.
C7_LoadReportsFailure ==
    (resp.endpoint = "load_config" /\ resp.status = 200) => ld.ok

\* C8: after a load that ran to its end the store was asked ontology_query,
\* property_query, classes_query in that order and each cached value is the
\* store's answer to its own query.
C8_CachedAnswers ==
    (ld.pc = "return" /\ ld.ok) =>
        /\ ld.calls = << global_config["ontology_query"],
                         global_config["property_query"],
                         global_config["classes_query"] >>
        /\ global_ontology = StoreAnswer(global_config["ontology_query"], CSV)
        /\ global_properties = StoreAnswer(global_config["property_query"], JSON)
        /\ global_classes = StoreAnswer(global_config["classes_query"], JSON)

\* C9: a GET /config that succeeds after a POST /config, with no other
\* write in between, returns for every field the value the POST carried, and
\* null for a field the POST did not carry.
C9_ConfigRoundTrip ==
    (resp.endpoint = "config_get" /\ resp.status = 200 /\ hist.lastPost # NoPost)
        => \A k \in Keys :
             resp.payload[k] =
                IF hist.lastPost[k] = Missing THEN None ELSE hist.lastPost[k]

C9_Witness ==
    /\ resp.endpoint = "config_get"
    /\ resp.status = 200
    /\ hist.lastPost # NoPost
    /\ hist.lastPost["instructions"] = Missing
    /\ hist.lastPost["template"] # Missing

\* C10: a step changes a cached value only if it is a step of
\* initialize_data; no other handler, succeeding or failing, does.
C10_OnlyLoadWritesCache ==
    [][ cache' # cache =>
          /\ ld.pc \in { "set_config", "ontology", "properties", "classes" }
          /\ ld'.pc # ld.pc ]_vars

\* a translate request answered from the configuration loaded before a
\* POST /config that the table already holds
C10_Witness ==
    /\ resp.endpoint \in TranslateEndpoints
    /\ resp.status = 200
    /\ hist.lastPost # NoPost
    /\ ontology_config # <<>>
    /\ tr.local["template"] # ontology_config[1]["template"]
    /\ tr.local["template"] = global_config["template"]
====
